---- MODULE Spec2Model ----
(***************************************************************************)
(* A model of src/get_up.py, the daily wake-up digest.                     *)
(*                                                                         *)
(*   Spec          one or more runs of main(): locating the tracking       *)
(*                 issue, the idempotency gate, gathering the digest,      *)
(*                 dispatching it and recording the run.                   *)
(*   SpecHistory   get_history_today() with its two provider adapters.     *)
(*   SpecActivity  get_yesterday_github_activity().                        *)
(*   SpecDigest    make_get_up_message(): the fetchers called in turn,     *)
(*                 each with its own exception handler.                    *)
(*   SpecStreet    get_random_street_view() and the random generator it    *)
(*                 shares with the rest of the program.                    *)
(*   SpecProgress  get_day_of_year() and get_year_progress() on every day  *)
(*                 of five years.                                          *)
(*                                                                         *)
(* Instants are whole hours since 1970-01-01T00:00Z.  Python values whose  *)
(* type matters to the code (a bool or a tuple, an int or a str or None)   *)
(* are tagged records.                                                     *)
(***************************************************************************)
EXTENDS Integers, Sequences, FiniteSets, TLC

VARIABLES
    \* ---- the world and main()
    now,              \* the current instant
    comments,         \* creation instants of the tracking issue's comments, oldest first
    issueOpen,        \* an open issue titled "GET UP" exists
    runs,             \* runs of main() started so far
    pc,               \* main()'s position
    tele_conf,        \* tele_token and tele_chat_id are both given
    ding_conf,        \* dingtalk_webhook is given
    is_today,         \* what get_today_get_up_status returned (a Python value)
    gateNow,          \* the instant the gate read as "now"
    fetched,          \* the source fetchers called in this run
    is_get_up_early,  \* make_get_up_message's flag
    sent,             \* channels a notification was delivered to in this run
    attempted,        \* channels a send was attempted on in this run
    commented,        \* this run created a tracking comment
    failed,           \* the external calls that failed in this run
    journal,          \* what the runs so far delivered, recorded or declined as late
    \* ---- get_history_today()
    hpc,              \* its position
    birth_year,       \* argument
    limit,            \* argument
    current_year,     \* now.year as read at line 347
    queried,          \* providers queried, in order
    wikiRaw,          \* what Wikimedia answered
    baiduRaw,         \* what Baidu answered
    wikiEvents,       \* get_history_today_from_wikimedia's return value
    baiduEvents,      \* get_history_today_from_baidu's return value
    filtered_events,  \* the candidate list the sample is drawn from
    hresult,          \* get_history_today's outcome
    \* ---- get_yesterday_github_activity()
    apc,              \* its position
    page,             \* the event page about to be requested
    requested,        \* the event pages requested, in order
    pages,            \* what each requested page answered and what scanning it gave
    searchLines,      \* `activities` (lines 509-548)
    all_activities,   \* lines 555-571
    aresult,          \* get_yesterday_github_activity's outcome
    \* ---- make_get_up_message()
    dpc,              \* its position
    digest,           \* the values gathered so far, and what each source answered
    \* ---- get_random_street_view()
    rng,              \* the state of the module-level random generator
    views             \* the calls made: calendar day, seed and site chosen

vars == <<now, comments, issueOpen, runs, pc, tele_conf, ding_conf, is_today, gateNow,
          fetched, is_get_up_early, sent, attempted, commented, failed, journal,
          hpc, birth_year, limit, current_year, queried, wikiRaw, baiduRaw,
          wikiEvents, baiduEvents, filtered_events, hresult,
          apc, page, requested, pages, searchLines, all_activities, aresult,
          dpc, digest, rng, views>>

mainVars == <<now, comments, issueOpen, runs, pc, tele_conf, ding_conf, is_today, gateNow,
              fetched, is_get_up_early, sent, attempted, commented, failed, journal>>

histVars == <<hpc, birth_year, limit, current_year, queried, wikiRaw, baiduRaw,
              wikiEvents, baiduEvents, filtered_events, hresult>>

actVars == <<apc, page, requested, pages, searchLines, all_activities, aresult>>

digVars == <<dpc, digest>>

streetVars == <<rng, views>>

(***************************************************************************)
(* Bounds of the model.                                                    *)
(***************************************************************************)
MaxRuns == 2
MaxInitComments == 2
MaxRaw == 2

(***************************************************************************)
(* Time: pendulum's conversion of an instant to Asia/Shanghai (UTC+8, no   *)
(* daylight saving) and the civil calendar fields of the result.           *)
(***************************************************************************)
TZ_OFFSET_HOURS == 8

FloorDiv(a, b) == a \div b

\* The civil date of a day number (days since 1970-01-01), proleptic Gregorian.
CivilFromDays(days) ==
    LET z    == days + 719468
        era  == FloorDiv(z, 146097)
        doe  == z - era * 146097
        yoe  == (doe - doe \div 1460 + doe \div 36524 - doe \div 146096) \div 365
        doy  == doe - (365 * yoe + yoe \div 4 - yoe \div 100)
        mp   == (5 * doy + 2) \div 153
        d    == doy - (153 * mp + 2) \div 5 + 1
        m    == IF mp < 10 THEN mp + 3 ELSE mp - 9
        y    == yoe + era * 400 + (IF m <= 2 THEN 1 ELSE 0)
    IN  [year |-> y, month |-> m, day |-> d]

\* instant.in_timezone("Asia/Shanghai"): the local calendar fields.
in_timezone(t) ==
    LET local == t + TZ_OFFSET_HOURS
        date  == CivilFromDays(FloorDiv(local, 24))
    IN  [year |-> date.year, month |-> date.month, day |-> date.day,
         hour |-> local % 24]

\* The instants the clock and the comments take (hours since the epoch):
\*   474788  2024-02-29T20Z = 2024-03-01 04:00 in Shanghai
\*   483543  2025-02-28T15Z = 2025-02-28 23:00
\*   483545  2025-02-28T17Z = 2025-03-01 01:00
\*   483548  2025-02-28T20Z = 2025-03-01 04:00
\*   483553  2025-03-01T01Z = 2025-03-01 09:00
\*   484293  2025-03-31T21Z = 2025-04-01 05:00
\*   490891  2025-12-31T19Z = 2026-01-01 03:00
Instants == {474788, 483543, 483545, 483548, 483553, 484293, 490891}

(***************************************************************************)
(* Python values.                                                          *)
(***************************************************************************)
PyNone == [t |-> "none", b |-> FALSE, len |-> 0]
PyBool(b) == [t |-> "bool", b |-> b, len |-> 0]
PyTuple(n) == [t |-> "tuple", b |-> FALSE, len |-> n]

\* Python's truth value of v, as `if v:` takes it.
Truthy(v) ==
    CASE v.t = "bool"  -> v.b
      [] v.t = "tuple" -> v.len > 0
      [] OTHER         -> FALSE

Last(s) == s[Len(s)]

(***************************************************************************)
(* The idempotency gate.                                                   *)
(***************************************************************************)
get_today_get_up_status_NoMonth(cs, t) ==
    IF cs = <<>>
    THEN PyTuple(2)
    ELSE PyBool(in_timezone(Last(cs)).day = in_timezone(t).day)

\* get_today_get_up_status(issue), the comments having been retrieved as cs
\* and pendulum.now(TIMEZONE) being t.
get_today_get_up_status(cs, t) ==
    IF cs = <<>>
    THEN PyTuple(2)                      \* return False, []
    ELSE LET latest_day == in_timezone(Last(cs))
             today      == in_timezone(t)
         IN  PyBool(latest_day.day = today.day /\ latest_day.month = today.month)

(***************************************************************************)
(* main()                                                                  *)
(***************************************************************************)
Sources == {"sentence", "day_of_year", "year_progress", "github_activity",
            "running_info", "history_today", "street_view"}

RunIdle ==
    /\ pc = "idle"
    /\ is_today = PyNone
    /\ gateNow = 0
    /\ fetched = {}
    /\ is_get_up_early = FALSE
    /\ sent = {}
    /\ attempted = {}
    /\ commented = FALSE
    /\ failed = {}
    /\ journal = {}

\* Ascending sequences of at most n instants, none later than t.
RECURSIVE AscendingSeqs(_, _)
AscendingSeqs(n, t) ==
    IF n = 0 THEN {<<>>}
    ELSE LET shorter == AscendingSeqs(n - 1, t)
         IN  shorter \cup
             {Append(s, i) : s \in {x \in shorter : Len(x) = n - 1},
                             i \in {j \in Instants : j <= t}}

IsAscending(s) == \A i \in 1..(Len(s) - 1) : s[i] <= s[i + 1]

InitMain ==
    /\ now \in Instants
    /\ comments \in {s \in AscendingSeqs(MaxInitComments, now) : IsAscending(s)}
    /\ issueOpen \in BOOLEAN
    /\ (~issueOpen => comments = <<>>)
    /\ runs = 0
    /\ tele_conf = FALSE
    /\ ding_conf = FALSE
    /\ RunIdle

\* Time passes.
Tick ==
    /\ \E t \in Instants : t > now /\ now' = t
    /\ UNCHANGED <<comments, issueOpen, runs, journal, pc, tele_conf, ding_conf, is_today, gateNow,
                   fetched, is_get_up_early, sent, attempted, commented, failed>>

\* The script is started (lines 841-868).
StartRun ==
    /\ pc \in {"idle", "done", "raised"}
    /\ runs < MaxRuns
    /\ runs' = runs + 1
    /\ \E t \in BOOLEAN, d \in BOOLEAN : tele_conf' = t /\ ding_conf' = d
    /\ pc' = "locate"
    /\ is_today' = PyNone
    /\ gateNow' = 0
    /\ fetched' = {}
    /\ is_get_up_early' = FALSE
    /\ sent' = {}
    /\ attempted' = {}
    /\ commented' = FALSE
    /\ failed' = {}
    /\ UNCHANGED <<now, comments, issueOpen, journal>>

\* Lines 760-781: find the open issue titled "GET UP", or create it.  A newly
\* created issue is the newest open one, so it is the one this and later runs use;
\* it has no comments.
LocateIssue ==
    /\ pc = "locate"
    /\ \E o \in {"ok", "repo_fails", "search_fails", "create_fails"} :
         CASE o = "repo_fails" ->            \* login / get_repo raise, outside the try
                /\ pc' = "raised"
                /\ failed' = failed \cup {"get_repo"}
                /\ UNCHANGED <<comments, issueOpen>>
           [] o = "ok" ->
                /\ pc' = "gate"
                /\ issueOpen' = TRUE
                /\ comments' = IF issueOpen THEN comments ELSE <<>>
                /\ UNCHANGED failed
           [] o = "search_fails" ->          \* except: create a new issue
                /\ pc' = "gate"
                /\ issueOpen' = TRUE
                /\ comments' = <<>>
                /\ failed' = failed \cup {"get_issues"}
           [] o = "create_fails" ->          \* both attempts fail: return
                /\ pc' = "done"
                /\ failed' = failed \cup {"create_issue"}
                /\ UNCHANGED <<comments, issueOpen>>
    /\ UNCHANGED <<now, runs, journal, tele_conf, ding_conf, is_today, gateNow,
                   fetched, is_get_up_early, sent, attempted, commented>>

Gate_SwallowsError ==
    /\ pc = "gate"
    /\ \E ok \in BOOLEAN :
         IF ok
         THEN /\ is_today' = get_today_get_up_status(comments, now)
              /\ UNCHANGED failed
         ELSE /\ is_today' = PyBool(FALSE)
              /\ failed' = failed \cup {"get_comments"}
    /\ gateNow' = now
    /\ pc' = "gated"
    /\ UNCHANGED <<now, comments, issueOpen, runs, journal, tele_conf, ding_conf,
                   fetched, is_get_up_early, sent, attempted, commented>>

\* Line 783: is_today = get_today_get_up_status(issue).  issue.get_comments()
\* (line 702) may raise; neither the function nor main catches it.
Gate ==
    /\ pc = "gate"
    /\ \E ok \in BOOLEAN :
         IF ok
         THEN /\ is_today' = get_today_get_up_status(comments, now)
              /\ gateNow' = now
              /\ pc' = "gated"
              /\ UNCHANGED failed
         ELSE /\ pc' = "raised"
              /\ failed' = failed \cup {"get_comments"}
              /\ UNCHANGED <<is_today, gateNow>>
    /\ UNCHANGED <<now, comments, issueOpen, runs, journal, tele_conf, ding_conf,
                   fetched, is_get_up_early, sent, attempted, commented>>

GateCheck_NoReturn ==
    /\ pc = "gated"
    /\ pc' = "gather"
    /\ UNCHANGED <<now, comments, issueOpen, runs, journal, tele_conf, ding_conf, is_today, gateNow,
                   fetched, is_get_up_early, sent, attempted, commented, failed>>

\* Lines 784-786: if is_today: return.
GateCheck ==
    /\ pc = "gated"
    /\ pc' = IF Truthy(is_today) THEN "done" ELSE "gather"
    /\ UNCHANGED <<now, comments, issueOpen, runs, journal, tele_conf, ding_conf, is_today, gateNow,
                   fetched, is_get_up_early, sent, attempted, commented, failed>>

MakeGetUpMessage_NoLowerHour ==
    /\ pc = "gather"
    /\ fetched' = Sources
    /\ is_get_up_early' = (in_timezone(now).hour <= 9)
    /\ pc' = "dispatch"
    /\ UNCHANGED <<now, comments, issueOpen, runs, journal, tele_conf, ding_conf, is_today, gateNow,
                   sent, attempted, commented, failed>>

\* Lines 788-809: make_get_up_message calls every source fetcher in turn; each
\* catches its own failures.  is_get_up_early is 3 <= now.hour <= 9.
MakeGetUpMessage ==
    /\ pc = "gather"
    /\ fetched' = Sources
    /\ is_get_up_early' = (3 <= in_timezone(now).hour /\ in_timezone(now).hour <= 9)
    /\ pc' = "dispatch"
    /\ UNCHANGED <<now, comments, issueOpen, runs, journal, tele_conf, ding_conf, is_today, gateNow,
                   sent, attempted, commented, failed>>

\* What the journal keeps of a delivery (a notification that went out on a
\* channel, the tracking comment, or "late" for the run that declined to
\* deliver at line 838): the run that made it, and the calendar days in the
\* fixed timezone of that run's gate and of the delivery.
Delivery(what) ==
    [run  |-> runs,
     what |-> what,
     gate |-> FloorDiv(gateNow + TZ_OFFSET_HOURS, 24),
     day  |-> FloorDiv(now + TZ_OFFSET_HOURS, 24)]

Channels == {"telegram", "dingtalk"}

SendTelegram_FailureRaises ==
    /\ pc = "dispatch"
    /\ IF ~is_get_up_early
       THEN /\ pc' = "done"
            /\ UNCHANGED <<sent, attempted, failed>>
       ELSE IF tele_conf
            THEN /\ attempted' = attempted \cup {"telegram"}
                 /\ \E ok \in BOOLEAN :
                      IF ok
                      THEN /\ sent' = sent \cup {"telegram"}
                           /\ pc' = "dingtalk"
                           /\ UNCHANGED failed
                      ELSE /\ failed' = failed \cup {"telegram"}
                           /\ pc' = "raised"
                           /\ UNCHANGED sent
            ELSE /\ pc' = "dingtalk"
                 /\ UNCHANGED <<sent, attempted, failed>>
    /\ journal' = journal \cup {Delivery(c) : c \in sent' \ sent}
                           \cup (IF is_get_up_early THEN {} ELSE {Delivery("late")})
    /\ UNCHANGED <<now, comments, issueOpen, runs, tele_conf, ding_conf, is_today, gateNow,
                   fetched, is_get_up_early, commented>>

\* Lines 812-824 and 837-838.
SendTelegram ==
    /\ pc = "dispatch"
    /\ IF ~is_get_up_early
       THEN /\ pc' = "done"                  \* "You wake up late"
            /\ UNCHANGED <<sent, attempted, failed>>
       ELSE /\ pc' = "dingtalk"
            /\ IF tele_conf
               THEN /\ attempted' = attempted \cup {"telegram"}
                    /\ \E ok \in BOOLEAN :
                         IF ok
                         THEN sent' = sent \cup {"telegram"} /\ UNCHANGED failed
                         ELSE failed' = failed \cup {"telegram"} /\ UNCHANGED sent
               ELSE UNCHANGED <<sent, attempted, failed>>
    /\ journal' = journal \cup {Delivery(c) : c \in sent' \ sent}
                           \cup (IF is_get_up_early THEN {} ELSE {Delivery("late")})
    /\ UNCHANGED <<now, comments, issueOpen, runs, tele_conf, ding_conf, is_today, gateNow,
                   fetched, is_get_up_early, commented>>

\* Lines 826-833, with send_dingtalk_message (lines 92-114).
SendDingTalk ==
    /\ pc = "dingtalk"
    /\ pc' = "comment"
    /\ IF ding_conf
       THEN /\ attempted' = attempted \cup {"dingtalk"}
            /\ \E ok \in BOOLEAN :
                 IF ok
                 THEN sent' = sent \cup {"dingtalk"} /\ UNCHANGED failed
                 ELSE failed' = failed \cup {"dingtalk"} /\ UNCHANGED sent
       ELSE UNCHANGED <<sent, attempted, failed>>
    /\ journal' = journal \cup {Delivery(c) : c \in sent' \ sent}
    /\ UNCHANGED <<now, comments, issueOpen, runs, tele_conf, ding_conf, is_today, gateNow,
                   fetched, is_get_up_early, commented>>

\* Lines 835-836: issue.create_comment; it may raise, and nothing catches it.
CreateComment ==
    /\ pc = "comment"
    /\ \E ok \in BOOLEAN :
         IF ok
         THEN /\ comments' = Append(comments, now)
              /\ commented' = TRUE
              /\ pc' = "done"
              /\ UNCHANGED failed
         ELSE /\ pc' = "raised"
              /\ failed' = failed \cup {"create_comment"}
              /\ UNCHANGED <<comments, commented>>
    /\ journal' = IF commented' THEN journal \cup {Delivery("comment")} ELSE journal
    /\ UNCHANGED <<now, issueOpen, runs, tele_conf, ding_conf, is_today, gateNow,
                   fetched, is_get_up_early, sent, attempted>>

(***************************************************************************)
(* Historical events: the provider payloads.                               *)
(*                                                                         *)
(* A JSON year is an int, a string or absent/null.  A text is a sequence   *)
(* of tokens ("w" a word, "W" a word in traditional script, "<b>" a markup  *)
(* tag, "nl" a newline, "sp" a space) or null.  A Baidu year               *)
(* string is a sequence of characters: digits, "B" for the marker          *)
(* "公元前" (BCE), and other characters ("y" for "年", "c" for any other). *)
(***************************************************************************)
BIRTH_YEAR == 1999
NUM_FALLBACK_FACTS == 10
MaxLimit == 2

YInt(n) == [t |-> "int", v |-> n]
YStr == [t |-> "str", v |-> 0]
YNone == [t |-> "none", v |-> 0]

Txt(s) == [t |-> "str", s |-> s]
TxtNone == [t |-> "none", s |-> <<>>]

FALLBACK_INTERESTING_FACTS == 1..NUM_FALLBACK_FACTS

BirthYears == {BIRTH_YEAR, 0}
Limits == 0..MaxLimit
HistInstants == {483548, 490891}

\* Entries of Wikimedia's "events" list.
WikiPool ==
    { [year |-> YInt(1999), text |-> Txt(<<"w">>), page |-> "u"],
      [year |-> YInt(2010), text |-> Txt(<<"w">>), page |-> ""],
      [year |-> YInt(2026), text |-> Txt(<<"sp", "W", "nl", "w">>), page |-> "u"],
      [year |-> YInt(5),    text |-> Txt(<<"w">>), page |-> ""],
      [year |-> YInt(-200), text |-> Txt(<<"w">>), page |-> "u"],
      [year |-> YInt(0),    text |-> Txt(<<"w">>), page |-> ""],
      [year |-> YStr,       text |-> Txt(<<"w">>), page |-> ""],
      [year |-> YInt(1999), text |-> Txt(<<>>),    page |-> ""],
      [year |-> YInt(2010), text |-> TxtNone,      page |-> ""] }

\* Entries of Baidu's list for the day.
BaiduPool ==
    { [year |-> <<"1", "9", "9", "9", "y">>,      title |-> <<"w">>,   desc |-> <<>>],
      [year |-> <<"B", "2", "0", "0", "y">>,      title |-> <<"w">>,   desc |-> <<>>],
      [year |-> <<"B", "0", "y">>,                title |-> <<"w">>,   desc |-> <<>>],
      [year |-> <<"B", "c", "2", "0", "0", "y">>, title |-> <<"w">>,   desc |-> <<>>],
      [year |-> <<"y">>,                          title |-> <<"w">>,   desc |-> <<>>],
      [year |-> <<"0", "y">>,                     title |-> <<"w">>,   desc |-> <<>>],
      [year |-> <<"2", "0", "1", "0", "y">>,      title |-> <<"<b>">>, desc |-> <<"w">>],
      [year |-> <<"5", "y">>,                     title |-> <<>>,      desc |-> <<"w">>] }

RECURSIVE SeqsUpTo(_, _)
\* The sequences over S of length at most n.
SeqsUpTo(S, n) ==
    IF n = 0 THEN {<<>>}
    ELSE LET shorter == SeqsUpTo(S, n - 1)
         IN  shorter \cup {Append(s, x) : s \in {q \in shorter : Len(q) = n - 1}, x \in S}

\* What a provider request can come to: the request raises (network error,
\* timeout), the status is not 2xx, the payload has an unexpected shape (not
\* JSON, not an object, entries that are not objects), or a list of entries.
ProviderKinds == {"exception", "status", "malformed", "ok"}

WikiResponses ==
    {[kind |-> k, events |-> <<>>] : k \in ProviderKinds \ {"ok"}}
        \cup {[kind |-> "ok", events |-> s] : s \in SeqsUpTo(WikiPool, MaxRaw)}

BaiduResponses ==
    {[kind |-> k, events |-> <<>>] : k \in ProviderKinds \ {"ok"}}
        \cup {[kind |-> "ok", events |-> s] : s \in SeqsUpTo(BaiduPool, MaxRaw)}

(***************************************************************************)
(* get_history_today_from_baidu                                            *)
(***************************************************************************)
Digits == {"0", "1", "2", "3", "4", "5", "6", "7", "8", "9"}

DigitVal(c) ==
    CASE c = "0" -> 0 [] c = "1" -> 1 [] c = "2" -> 2 [] c = "3" -> 3 [] c = "4" -> 4
      [] c = "5" -> 5 [] c = "6" -> 6 [] c = "7" -> 7 [] c = "8" -> 8 [] c = "9" -> 9

RECURSIVE DigitRun(_, _, _)
\* int() of the maximal run of digits of s that starts at position i, acc being
\* the value of the digits already read.
DigitRun(s, i, acc) ==
    IF i <= Len(s) /\ s[i] \in Digits
    THEN DigitRun(s, i + 1, acc * 10 + DigitVal(s[i]))
    ELSE acc

\* re.search(r"(\d+)", s): the position of the first digit, 0 when there is none.
FirstDigit(s) ==
    IF \E i \in 1..Len(s) : s[i] \in Digits
    THEN CHOOSE i \in 1..Len(s) :
            /\ s[i] \in Digits
            /\ \A j \in 1..(i - 1) : s[j] \notin Digits
    ELSE 0

\* re.search(r"公元前(\d+)", s): the position of the first digit that directly
\* follows a marker, 0 when there is none.
FirstDigitAfterMarker(s) ==
    IF \E i \in 2..Len(s) : s[i - 1] = "B" /\ s[i] \in Digits
    THEN CHOOSE i \in 2..Len(s) :
            /\ s[i - 1] = "B" /\ s[i] \in Digits
            /\ \A j \in 2..(i - 1) : ~(s[j - 1] = "B" /\ s[j] \in Digits)
    ELSE 0

HasMarker(s) == \E i \in 1..Len(s) : s[i] = "B"

\* Lines 254-266: year_match, YNone standing for None.
ParseBaiduYear(year_str) ==
    IF HasMarker(year_str)
    THEN LET i == FirstDigitAfterMarker(year_str)
         IN  IF i = 0 THEN YNone ELSE YInt(0 - DigitRun(year_str, i, 0))
    ELSE LET i == FirstDigit(year_str)
         IN  IF i = 0 THEN YNone ELSE YInt(DigitRun(year_str, i, 0))

IsTag(tok) == tok = "<b>"

\* Line 271: re.sub(r'<[^>]+>', '', text).
StripTags(s) == SelectSeq(s, LAMBDA tok : ~IsTag(tok))

\* Lines 268-272: the event emitted for entry i of the list, the year being y.
\* src and idx record where the event comes from; the code does not hold them.
BaiduEvent(raw, i, y) ==
    [year |-> y,
     text |-> Txt(StripTags(IF raw.title # <<>> THEN raw.title ELSE raw.desc)),
     wiki_url |-> "", src |-> "baidu", idx |-> i]

RECURSIVE BaiduLoop(_, _)
\* Lines 252-274: the events of entries i.. of events_raw.
BaiduLoop(events_raw, i) ==
    IF i > Len(events_raw) THEN <<>>
    ELSE LET y == ParseBaiduYear(events_raw[i].year)
         IN  (IF y.t = "none" THEN <<>> ELSE <<BaiduEvent(events_raw[i], i, y)>>)
                 \o BaiduLoop(events_raw, i + 1)

\* get_history_today_from_baidu: lines 230-278.
get_history_today_from_baidu(resp) ==
    IF resp.kind = "ok" THEN BaiduLoop(resp.events, 1) ELSE <<>>

(***************************************************************************)
(* get_history_today_from_wikimedia                                        *)
(***************************************************************************)
\* Line 323: `if year:`.
YearTruthy(y) ==
    CASE y.t = "int"  -> y.v # 0
      [] y.t = "str"  -> TRUE
      [] y.t = "none" -> FALSE

WikiEvent(raw, i) ==
    [year |-> raw.year, text |-> raw.text, wiki_url |-> raw.page,
     src |-> "wikimedia", idx |-> i]

RECURSIVE WikiLoop(_, _)
\* Lines 312-326.
WikiLoop(events_raw, i) ==
    IF i > Len(events_raw) THEN <<>>
    ELSE (IF YearTruthy(events_raw[i].year) THEN <<WikiEvent(events_raw[i], i)>> ELSE <<>>)
             \o WikiLoop(events_raw, i + 1)

\* get_history_today_from_wikimedia: lines 291-330.
get_history_today_from_wikimedia(resp) ==
    IF resp.kind = "ok" THEN WikiLoop(resp.events, 1) ELSE <<>>

(***************************************************************************)
(* get_history_today                                                       *)
(***************************************************************************)
Min(a, b) == IF a <= b THEN a ELSE b

InSeq(x, s) == \E i \in 1..Len(s) : s[i] = x

FallbackNeeded_Always(events) == TRUE

\* Line 353: `if not events:` after the Wikimedia call.
FallbackNeeded(events) == events = <<>>

\* Lines 360-364.
InLifetime(events, by, cy) ==
    SelectSeq(events, LAMBDA e : by <= e.year.v /\ e.year.v <= cy)

\* Line 368.
PositiveYears(events) == SelectSeq(events, LAMBDA e : e.year.v > 0)

\* Lines 360-368: filtered_events.
FilterEvents(events, by, cy) ==
    IF InLifetime(events, by, cy) # <<>>
    THEN InLifetime(events, by, cy)
    ELSE PositiveYears(events)

\* Lines 360-364: comparing an int with a str raises TypeError.
FilterRaises(events) == \E i \in 1..Len(events) : events[i].year.t # "int"

\* random.sample(population of n, k): k distinct positions, in any order.
Samples(n, k) ==
    {s \in [1..k -> 1..n] : \A i, j \in 1..k : i # j => s[i] # s[j]}

\* The place where e goes into a list sorted by year, descending: after every
\* element whose year is not smaller (the sort is stable).
InsertDesc(sorted, e) ==
    LET n == Cardinality({i \in 1..Len(sorted) : sorted[i].year.v >= e.year.v})
    IN  SubSeq(sorted, 1, n) \o <<e>> \o SubSeq(sorted, n + 1, Len(sorted))

RECURSIVE SortFrom(_, _, _)
SortFrom(s, i, acc) ==
    IF i > Len(s) THEN acc ELSE SortFrom(s, i + 1, InsertDesc(acc, s[i]))

SortByYearDesc_Unsorted(s) == s

\* Line 378: selected_events.sort(key=year, reverse=True).
SortByYearDesc(s) == SortFrom(s, 1, <<>>)

IsSpace(tok) == tok = "sp"

RECURSIVE Strip(_)
\* str.strip()
Strip(s) ==
    IF s = <<>> THEN s
    ELSE IF IsSpace(s[1]) THEN Strip(Tail(s))
    ELSE IF IsSpace(s[Len(s)]) THEN Strip(SubSeq(s, 1, Len(s) - 1))
    ELSE s

\* Lines 398-399: newlines to spaces, strip, traditional to simplified script.
CleanText(s) ==
    LET spaced   == [i \in 1..Len(s) |-> IF s[i] = "nl" THEN "sp" ELSE s[i]]
        stripped == Strip(spaced)
    IN  [i \in 1..Len(stripped) |-> IF stripped[i] = "W" THEN "w" ELSE stripped[i]]

\* Lines 388-395: age_text.  `year and ...` is false for year 0.
AgeText(year, by) ==
    IF year # 0 /\ year >= by
    THEN [ann |-> "age", n |-> year - by]
    ELSE IF year # 0 /\ year < by
         THEN [ann |-> "before", n |-> by - year]
         ELSE [ann |-> "none", n |-> 0]

\* Lines 382-406: the bullet line of one event.
RenderLine(e, by) ==
    [year |-> e.year.v, text |-> CleanText(e.text.s), wiki_url |-> e.wiki_url,
     ann |-> AgeText(e.year.v, by).ann, n |-> AgeText(e.year.v, by).n,
     src |-> e.src, idx |-> e.idx]

\* Line 398: None has no replace().
RenderRaises(selected) == \E i \in 1..Len(selected) : selected[i].text.t = "none"

NoResult == [kind |-> "none", lines |-> <<>>, fact |-> 0]
Raised == [kind |-> "raised", lines |-> <<>>, fact |-> 0]
Filler(fact) == [kind |-> "filler", lines |-> <<>>, fact |-> fact]
Block(lines) == [kind |-> "block", lines |-> lines, fact |-> 0]

HandleException_Reraise(outcome, fact) == outcome

\* Lines 410-413: except Exception: return random.choice(FALLBACK_INTERESTING_FACTS).
HandleException(outcome, fact) ==
    IF outcome.kind = "raised" THEN Filler(fact) ELSE outcome

HistIdle ==
    /\ hpc = "idle"
    /\ birth_year = BIRTH_YEAR
    /\ limit = 0
    /\ current_year = 0
    /\ queried = <<>>
    /\ wikiRaw = [kind |-> "none", events |-> <<>>]
    /\ baiduRaw = [kind |-> "none", events |-> <<>>]
    /\ wikiEvents = <<>>
    /\ baiduEvents = <<>>
    /\ filtered_events = <<>>
    /\ hresult = NoResult

\* Lines 346-350: now.year is read and Wikimedia is queried.
HT_QueryWikimedia ==
    /\ hpc = "start"
    /\ current_year' = in_timezone(now).year
    /\ \E resp \in WikiResponses :
         /\ wikiRaw' = resp
         /\ wikiEvents' = get_history_today_from_wikimedia(resp)
         /\ hpc' = IF FallbackNeeded(get_history_today_from_wikimedia(resp))
                   THEN "baidu" ELSE "select"
    /\ queried' = Append(queried, "wikimedia")
    /\ UNCHANGED <<birth_year, limit, baiduRaw, baiduEvents, filtered_events, hresult>>

\* Lines 353-354: Baidu is queried.
HT_QueryBaidu ==
    /\ hpc = "baidu"
    /\ \E resp \in BaiduResponses :
         /\ baiduRaw' = resp
         /\ baiduEvents' = get_history_today_from_baidu(resp)
    /\ queried' = Append(queried, "baidu")
    /\ hpc' = "select"
    /\ UNCHANGED <<birth_year, limit, current_year, wikiRaw, wikiEvents,
                   filtered_events, hresult>>

\* The value of `events` at line 356.
EventsAfterFallback ==
    IF InSeq("baidu", queried) THEN baiduEvents ELSE wikiEvents

\* Lines 356-408 for one outcome of random.sample: the block, a raise, or
\* "empty" where the code goes on to pick a filler statement (lines 357, 371).
\* Its second component is filtered_events (empty when line 360 is not passed).
SelectBody(events, by, cy, pick) ==
    IF events = <<>> THEN <<[kind |-> "empty", lines |-> <<>>, fact |-> 0], <<>>>>
    ELSE IF FilterRaises(events) THEN <<Raised, <<>>>>
    ELSE LET f        == FilterEvents(events, by, cy)
             sample   == [i \in 1..Len(pick) |-> f[pick[i]]]
             selected == SortByYearDesc(sample)
         IN  IF f = <<>> THEN <<[kind |-> "empty", lines |-> <<>>, fact |-> 0], f>>
             ELSE IF RenderRaises(selected) THEN <<Raised, f>>
             ELSE <<Block([i \in 1..Len(selected) |-> RenderLine(selected[i], by)]), f>>

\* The outcomes random.sample can have at line 374 (none when it is not reached).
Picks(events, by, cy, lim) ==
    IF events = <<>> \/ FilterRaises(events) \/ FilterEvents(events, by, cy) = <<>>
    THEN {<<>>}
    ELSE Samples(Len(FilterEvents(events, by, cy)),
                 Min(lim, Len(FilterEvents(events, by, cy))))

\* Lines 356-413: filter, sample, sort and render, or a filler statement.
HT_Select ==
    /\ hpc = "select"
    /\ hpc' = "returned"
    /\ \E pick \in Picks(EventsAfterFallback, birth_year, current_year, limit) :
         LET body == SelectBody(EventsAfterFallback, birth_year, current_year, pick)
         IN  /\ filtered_events' = body[2]
             /\ IF body[1].kind = "block"
                THEN hresult' = body[1]
                ELSE \E fact \in FALLBACK_INTERESTING_FACTS :
                       hresult' = IF body[1].kind = "empty"
                                  THEN Filler(fact)
                                  ELSE HandleException(body[1], fact)
    /\ UNCHANGED <<birth_year, limit, current_year, queried, wikiRaw, baiduRaw,
                   wikiEvents, baiduEvents>>

(***************************************************************************)
(* get_yesterday_github_activity                                           *)
(*                                                                         *)
(* A rendered activity line is the record of what its text is made of:     *)
(* the action, the title with its URL (one number), and the repository.    *)
(***************************************************************************)
PER_PAGE == 30
LAST_PAGE == 3
MAX_EVENTS_SCANNED == 100
MAX_ACTIVITIES == 15
MaxSearchItems == 1
MaxPageItems == 1

\* Lines 494-496: yesterday's first and last hour, in hours since the epoch (UTC).
yesterday_start(t) == FloorDiv(t + TZ_OFFSET_HOURS, 24) * 24 - 24 - TZ_OFFSET_HOURS
yesterday_end(t) == yesterday_start(t) + 23

\* The instant of the activity runs: 2025-03-01 04:00 in Shanghai, so that
\* yesterday is 483520..483543.
ActInstants == {483548}
ActInstant == CHOOSE t \in ActInstants : TRUE
\* Creation times of the stream's events: before the window, two inside it, and
\* after it (today).
T_OLD == yesterday_start(ActInstant) - 10
T_IN == yesterday_start(ActInstant) + 10
T_IN_EARLIER == yesterday_start(ActInstant) + 5
T_NEWER == yesterday_end(ActInstant) + 3

USERNAME == "coutureone"

\* Items of a search response.  wellformed = FALSE: a key the code reads is missing.
SearchItemPool ==
    { [login |-> USERNAME, title |-> 1, repo |-> "r", wellformed |-> TRUE],
      [login |-> "other",  title |-> 3, repo |-> "r", wellformed |-> TRUE],
      [login |-> USERNAME, title |-> 1, repo |-> "r", wellformed |-> FALSE] }

\* What _make_api_request can return for a search: an error (status not 200, or
\* the request raised), an object with "items", or JSON of another shape.
SearchResponses ==
    {[kind |-> k, items |-> <<>>] : k \in {"error", "shape"}}
        \cup {[kind |-> "ok", items |-> s] : s \in SeqsUpTo(SearchItemPool, MaxSearchItems)}

Event(type, action, created, public, title, wf) ==
    [type |-> type, action |-> action, created_at |-> created, public |-> public,
     title |-> title, repo |-> "r", wellformed |-> wf]

\* Events of the stream.
EventPool ==
    { Event("PullRequestEvent", "merged",  T_IN,    TRUE,  1, TRUE),
      Event("IssuesEvent",      "closed",  T_IN,    TRUE,  2, TRUE),
      Event("WatchEvent",       "started", T_IN,    TRUE,  0, TRUE),
      Event("PullRequestEvent", "merged",  T_OLD,   TRUE,  3, TRUE),
      Event("PullRequestEvent", "merged",  T_NEWER, TRUE,  4, TRUE),
      Event("PullRequestEvent", "merged",  T_IN,    FALSE, 5, TRUE),
      Event("PullRequestEvent", "opened",  T_IN,    TRUE,  6, TRUE),
      Event("PushEvent",        "none",    T_IN,    TRUE,  7, TRUE),
      Event("IssuesEvent",      "closed",  T_IN,    TRUE,  2, FALSE) }

\* Full pages of PER_PAGE events: merged pull requests numbered from `first`, all
\* created at `created`.
FullPage(first, created) ==
    [i \in 1..PER_PAGE |->
        Event("PullRequestEvent", "merged", created, TRUE, first + i - 1, TRUE)]

\* A full page whose event at position k is older than the window.
FullPageWithOld(first, k) ==
    [i \in 1..PER_PAGE |->
        Event("PullRequestEvent", "merged", IF i = k THEN T_OLD ELSE T_IN_EARLIER,
              TRUE, first + i - 1, TRUE)]

FullPages ==
    { FullPage(101, T_IN), FullPage(116, T_IN), FullPage(201, T_NEWER),
      FullPageWithOld(301, 3) }

\* What _make_api_request can return for a page of events.
PageResponses ==
    {[kind |-> k, events |-> <<>>] : k \in {"error", "shape"}}
        \cup {[kind |-> "ok", events |-> s] : s \in SeqsUpTo(EventPool, MaxPageItems)}
        \cup {[kind |-> "ok", events |-> s] : s \in FullPages}

SearchLine(item_type, item) ==
    [action |-> IF item_type = "pr" THEN "created PR" ELSE "created Issue",
     title |-> item.title, repo |-> item.repo]

\* _process_search_items: lines 433-445.  raised: a KeyError left the function.
_process_search_items(items, username, item_type) ==
    [raised |-> \E i \in 1..Len(items) : ~items[i].wellformed,
     lines  |-> LET mine == SelectSeq(items, LAMBDA it : it.login = username)
                IN  [i \in 1..Len(mine) |-> SearchLine(item_type, mine[i])]]

EventLines_AnyAction(e) ==
    CASE e.type = "PullRequestEvent" ->
            <<[action |-> "merged PR", title |-> e.title, repo |-> e.repo]>>
      [] e.type = "IssuesEvent" ->
            <<[action |-> "closed Issue", title |-> e.title, repo |-> e.repo]>>
      [] e.type = "WatchEvent" ->
            <<[action |-> "starred", title |-> 0, repo |-> e.repo]>>
      [] OTHER -> <<>>

\* Lines 464-485: the lines one event inside the window gives.
EventLines(e) ==
    CASE e.type = "PullRequestEvent" /\ e.action = "merged" ->
            <<[action |-> "merged PR", title |-> e.title, repo |-> e.repo]>>
      [] e.type = "IssuesEvent" /\ e.action = "closed" ->
            <<[action |-> "closed Issue", title |-> e.title, repo |-> e.repo]>>
      [] e.type = "WatchEvent" /\ e.action = "started" ->
            <<[action |-> "starred", title |-> 0, repo |-> e.repo]>>
      [] OTHER -> <<>>

BeforeWindow_Never(e, start) == FALSE

\* Line 455: the event was created before yesterday began.
BeforeWindow(e, start) == e.created_at < start

RECURSIVE ProcessFrom(_, _, _, _, _)
\* The loop of _process_events from position i on, acc being `activities`.
ProcessFrom(events, i, start, end, acc) ==
    IF i > Len(events) \/ i > MAX_EVENTS_SCANNED
    THEN [raised |-> FALSE, lines |-> acc]
    ELSE LET e == events[i]
         IN  IF ~e.wellformed THEN [raised |-> TRUE, lines |-> acc]
             ELSE IF BeforeWindow(e, start) THEN [raised |-> FALSE, lines |-> acc]
             ELSE IF ~(start <= e.created_at /\ e.created_at <= end)
                  THEN ProcessFrom(events, i + 1, start, end, acc)
             ELSE IF ~e.public THEN ProcessFrom(events, i + 1, start, end, acc)
             ELSE ProcessFrom(events, i + 1, start, end, acc \o EventLines(e))

\* _process_events: lines 448-487.
_process_events(events, start, end) == ProcessFrom(events, 1, start, end, <<>>)

unique_activities_NoDedup(activities) == activities

\* Line 584: list(dict.fromkeys(activities)): a dict keeps each key where it
\* was inserted first, so this is the list without the repeated occurrences.
unique_activities(activities) ==
    LET keys == {i \in 1..Len(activities) :
                    \A j \in 1..(i - 1) : activities[j] # activities[i]}
    IN  [n \in 1..Cardinality(keys) |->
            activities[CHOOSE i \in keys : Cardinality({j \in keys : j < i}) = n - 1]]

first_activities_Uncapped(unique) == unique

\* Line 587: unique_activities[:15].
first_activities(unique) == SubSeq(unique, 1, Min(MAX_ACTIVITIES, Len(unique)))

NoActivity == [kind |-> "none", lines |-> <<>>]
\* The empty string: nothing to show (line 592) or an exception (lines 594-596).
EmptyActivity == [kind |-> "empty", lines |-> <<>>]
ActivityBlock(lines) == [kind |-> "block", lines |-> lines]

ActIdle ==
    /\ apc = "idle"
    /\ page = 0
    /\ requested = <<>>
    /\ pages = <<>>
    /\ searchLines = <<>>
    /\ all_activities = <<>>
    /\ aresult = NoActivity

\* One search and what it adds to `activities`: lines 515-530 and 535-550.
Search(item_type, after) ==
    \E resp \in SearchResponses :
        LET got == _process_search_items(resp.items, USERNAME, item_type)
        IN  CASE resp.kind = "shape" \/ (resp.kind = "ok" /\ got.raised) ->
                    \* an exception reaches line 594
                    /\ aresult' = EmptyActivity
                    /\ apc' = "returned"
                    /\ UNCHANGED searchLines
              [] resp.kind = "ok" /\ ~got.raised ->
                    /\ searchLines' = searchLines \o got.lines
                    /\ apc' = after
                    /\ UNCHANGED aresult
              [] resp.kind = "error" ->
                    /\ apc' = after
                    /\ UNCHANGED <<searchLines, aresult>>

\* Lines 511-530.
A_SearchPR ==
    /\ apc = "pr"
    /\ Search("pr", "issue")
    /\ UNCHANGED <<page, requested, pages, all_activities>>

\* Lines 532-550, and the loop's first page number (line 557).
A_SearchIssue ==
    /\ apc = "issue"
    /\ Search("issue", "events")
    /\ page' = 1
    /\ UNCHANGED <<requested, pages, all_activities>>

\* Where the loop of line 557 goes after page p: the next page, or line 577.
AfterPage(p) == IF p < LAST_PAGE THEN "events" ELSE "merge"

PageEndsStream_Never(events) == FALSE

\* Line 574: a page of fewer than per_page events is the last one.
PageEndsStream(events) == Len(events) < PER_PAGE

\* Lines 557-575: one turn of the loop over the pages.
A_FetchPage ==
    /\ apc = "events"
    /\ requested' = Append(requested, page)
    /\ \E resp \in PageResponses :
         LET got == _process_events(resp.events, yesterday_start(now), yesterday_end(now))
         IN  /\ pages' = Append(pages, [kind |-> resp.kind, events |-> resp.events,
                                        raised |-> got.raised, lines |-> got.lines])
             /\ CASE resp.kind = "error" ->                    \* continue
                    /\ apc' = AfterPage(page)
                    /\ page' = page + 1
                    /\ UNCHANGED <<all_activities, aresult>>
                  [] resp.kind = "shape" \/ (resp.kind = "ok" /\ got.raised) ->
                    /\ aresult' = EmptyActivity
                    /\ apc' = "returned"
                    /\ UNCHANGED <<page, all_activities>>
                  [] resp.kind = "ok" /\ ~got.raised /\ resp.events = <<>> ->   \* break
                    /\ apc' = "merge"
                    /\ UNCHANGED <<page, all_activities, aresult>>
                  [] resp.kind = "ok" /\ ~got.raised /\ resp.events # <<>> ->
                    /\ all_activities' = all_activities \o got.lines
                    /\ IF PageEndsStream(resp.events)
                       THEN apc' = "merge" /\ UNCHANGED page       \* break
                       ELSE apc' = AfterPage(page) /\ page' = page + 1
                    /\ UNCHANGED aresult
    /\ UNCHANGED searchLines

\* Lines 577-592: merge, deduplicate, cut to MAX_ACTIVITIES.
A_Merge ==
    /\ apc = "merge"
    /\ apc' = "returned"
    /\ LET activities == searchLines \o all_activities
           unique     == unique_activities(activities)
       IN  aresult' = IF activities # <<>>
                      THEN ActivityBlock(first_activities(unique))
                      ELSE EmptyActivity
    /\ UNCHANGED <<page, requested, pages, searchLines, all_activities>>

(***************************************************************************)
(* make_get_up_message()                                                   *)
(***************************************************************************)
IsLeapYear_EveryFourth(y) == y % 4 = 0

\* Line 685: the leap-year rule.
IsLeapYear(y) == y % 4 = 0 /\ (y % 100 # 0 \/ y % 400 = 0)

\* now.day_of_year (lines 207, 676, 682): the day's number within its year.
day_of_year(t) ==
    LET d == in_timezone(t)
        before == <<0, 31, 59, 90, 120, 151, 181, 212, 243, 273, 304, 334>>
    IN  before[d.month] + d.day + (IF IsLeapYear(d.year) /\ d.month > 2 THEN 1 ELSE 0)

\* get_year_progress, lines 679-698: the bar's blocks and the two day counts.
get_year_progress(t) ==
    LET total_days == IF IsLeapYear(in_timezone(t).year) THEN 366 ELSE 365
        filled_blocks == (day_of_year(t) * 20) \div total_days
    IN  [kind |-> "progress", filled_blocks |-> filled_blocks,
         empty_blocks |-> 20 - filled_blocks,
         day_of_year |-> day_of_year(t), total_days |-> total_days]

\* What a source can answer: a usable payload, a request that raises, a status
\* that is not 2xx, a payload that cannot be read as expected (reading it
\* raises), a readable payload that lacks what is needed.
SourceOutcomes == {"ok", "network_error", "bad_status", "malformed", "incomplete"}

\* A text, by its kind; the kind "raises" stands for an exception in flight.
Text(kind) == [kind |-> kind]
Raises == Text("raises")
DEFAULT_SENTENCE == Text("default_sentence")

Try_NoExcept(body, default) == body

\* try: ... except Exception: return default  (lines 147-149, 215-217,
\* 594-596, 669-671).
Try(body, default) == IF body = Raises THEN default ELSE body

\* get_one_sentence, lines 121-149.
get_one_sentence(answer) ==
    Try(CASE answer = "ok" -> Text("poem")
          [] answer \in {"network_error", "malformed"} -> Raises
          [] answer \in {"bad_status", "incomplete"} -> DEFAULT_SENTENCE,
        DEFAULT_SENTENCE)

\* get_yesterday_github_activity, lines 490-596, as make_get_up_message sees it:
\* a block, or "" when nothing was collected or its body raised.
get_yesterday_github_activity(answer) ==
    Try(CASE answer = "ok" -> Text("github")
          [] answer \in {"network_error", "bad_status", "incomplete"} -> Text("")
          [] answer = "malformed" -> Raises,
        Text(""))

\* get_running_distance, lines 599-673.
get_running_distance(answer) ==
    Try(CASE answer = "ok" -> Text("run")
          [] answer = "bad_status" -> Text("")
          [] answer \in {"network_error", "malformed", "incomplete"} -> Raises,
        Text(""))

\* get_history_today, lines 333-413, as make_get_up_message sees it: a block, or
\* a filler when no event is left or its body raised.
get_history_today(answer, fact) ==
    HandleException(CASE answer = "ok" -> Block(<<>>)
                      [] answer \in {"network_error", "bad_status", "incomplete"} ->
                            Filler(fact)
                      [] answer = "malformed" -> Raised,
                    fact)

\* get_random_street_view, lines 152-217, as make_get_up_message sees it: it
\* asks no source; "ok" is its body returning, anything else its body raising.
get_random_street_view(answer) ==
    Try(IF answer = "ok" THEN Text("street_view") ELSE Raises, Text(""))

Unset == Text("unset")

DigestIdle ==
    /\ dpc = "idle"
    /\ digest = [sentence |-> Unset, is_get_up_early |-> FALSE, day_of_year |-> 0,
                 year_progress |-> Unset, github_activity |-> Unset,
                 running_info |-> Unset, history_today |-> Unset,
                 street_view |-> Unset, answers |-> [src \in {} |-> "ok"]]

\* A value a fetcher gave is bound to its name, or the exception it raised
\* leaves make_get_up_message.
Bind(field, source, answer, value, next) ==
    IF value \in {Raises, Raised}
    THEN dpc' = "raised" /\ UNCHANGED digest
    ELSE /\ dpc' = next
         /\ digest' = [digest EXCEPT ![field] = value,
                                     !.answers = [src \in DOMAIN @ \cup {source} |->
                                                     IF src = source THEN answer ELSE @[src]]]

\* Line 715.
D_Sentence ==
    /\ dpc = "sentence"
    /\ \E a \in SourceOutcomes :
         Bind("sentence", "sentence", a, get_one_sentence(a), "now")

\* Lines 716-719.
D_Now ==
    /\ dpc = "now"
    /\ dpc' = "sentence_again"
    /\ digest' = [digest EXCEPT !.is_get_up_early =
                     (3 <= in_timezone(now).hour /\ in_timezone(now).hour <= 9)]

\* Lines 720-724: the second call, in a try of its own that keeps the first
\* call's value.
D_SentenceAgain ==
    /\ dpc = "sentence_again"
    /\ \E a \in SourceOutcomes :
         LET got == Try(get_one_sentence(a), digest.sentence)
         IN  Bind("sentence", "sentence", a, got, "calendar")

\* Lines 726-727.
D_Calendar ==
    /\ dpc = "calendar"
    /\ dpc' = "github_activity"
    /\ digest' = [digest EXCEPT !.day_of_year = day_of_year(now),
                                !.year_progress = get_year_progress(now)]

\* Line 728.
D_GithubActivity ==
    /\ dpc = "github_activity"
    /\ \E a \in SourceOutcomes :
         Bind("github_activity", "github_activity", a,
              get_yesterday_github_activity(a), "running_info")

\* Line 729.
D_RunningInfo ==
    /\ dpc = "running_info"
    /\ \E a \in SourceOutcomes :
         Bind("running_info", "running_info", a, get_running_distance(a), "history_today")

\* Line 730.
D_HistoryToday ==
    /\ dpc = "history_today"
    /\ \E a \in SourceOutcomes, fact \in FALLBACK_INTERESTING_FACTS :
         Bind("history_today", "history_today", a, get_history_today(a, fact),
              "street_view")

\* Line 731.
D_StreetView ==
    /\ dpc = "street_view"
    /\ \E a \in {"ok", "malformed"} :
         Bind("street_view", "street_view", a, get_random_street_view(a), "return")

\* Lines 733-742.
D_Return ==
    /\ dpc = "return"
    /\ dpc' = "returned"
    /\ UNCHANGED digest

(***************************************************************************)
(* get_random_street_view() and the random generator                       *)
(***************************************************************************)
NUM_SITES == 40
MaxRngState == 2
MaxCalls == 2

\* The states of the generator of module random.  The generator is a
\* deterministic machine: which state a seed gives, which state follows a
\* state and which index a state yields are fixed functions.
RngStates == 0..MaxRngState

random_seed_Ignored(state, a) == state

\* random.seed(a), line 208: the state depends on a alone.
random_seed(state, a) == a % (MaxRngState + 1)

\* random.choice(seq), line 209: the index the state yields.
random_choice(state, n) == (state * 7 + 3) % n

\* Any other draw from the generator (lines 357, 376, 412) moves its state on.
random_step(state) == (state + 1) % (MaxRngState + 1)

\* Line 207.
day_seed(year, day) == year * 1000 + day

\* The instants of the street-view calls: 2025-02-28 23:00, 2025-03-01 04:00
\* and 09:00, and 2026-01-01 03:00, in Shanghai.
StreetInstants == {483543, 483548, 483553, 490891}

StreetIdle ==
    /\ rng = 0
    /\ views = {}

\* get_random_street_view, lines 205-214: seed with the day, choose, reseed from
\* the system's entropy.
S_StreetView ==
    /\ Cardinality(views) < MaxCalls
    /\ LET seed  == day_seed(in_timezone(now).year, day_of_year(now))
           state == random_seed(rng, seed)
       IN  views' = views \cup
                      {[year |-> in_timezone(now).year, day_of_year |-> day_of_year(now),
                        hour |-> in_timezone(now).hour, before |-> rng,
                        day_seed |-> seed, site |-> random_choice(state, NUM_SITES)]}
    /\ rng' \in RngStates

\* Another part of the program draws from the generator.
S_OtherRandom ==
    /\ rng' = random_step(rng)
    /\ UNCHANGED views

(***************************************************************************)
(* The specifications.                                                     *)
(***************************************************************************)
Init == InitMain /\ HistIdle /\ ActIdle /\ DigestIdle /\ StreetIdle

Next ==
    \/ Tick /\ UNCHANGED <<histVars, actVars, digVars, streetVars>>
    \/ StartRun /\ UNCHANGED <<histVars, actVars, digVars, streetVars>>
    \/ LocateIssue /\ UNCHANGED <<histVars, actVars, digVars, streetVars>>
    \/ Gate /\ UNCHANGED <<histVars, actVars, digVars, streetVars>>
    \/ GateCheck /\ UNCHANGED <<histVars, actVars, digVars, streetVars>>
    \/ MakeGetUpMessage /\ UNCHANGED <<histVars, actVars, digVars, streetVars>>
    \/ SendTelegram /\ UNCHANGED <<histVars, actVars, digVars, streetVars>>
    \/ SendDingTalk /\ UNCHANGED <<histVars, actVars, digVars, streetVars>>
    \/ CreateComment /\ UNCHANGED <<histVars, actVars, digVars, streetVars>>

Spec == Init /\ [][Next]_vars

InitHistory ==
    /\ now \in HistInstants
    /\ comments = <<>>
    /\ issueOpen = TRUE
    /\ runs = 0
    /\ tele_conf = FALSE
    /\ ding_conf = FALSE
    /\ RunIdle
    /\ hpc = "start"
    /\ birth_year \in BirthYears
    /\ limit \in Limits
    /\ current_year = 0
    /\ queried = <<>>
    /\ wikiRaw = [kind |-> "none", events |-> <<>>]
    /\ baiduRaw = [kind |-> "none", events |-> <<>>]
    /\ wikiEvents = <<>>
    /\ baiduEvents = <<>>
    /\ filtered_events = <<>>
    /\ hresult = NoResult
    /\ ActIdle
    /\ DigestIdle
    /\ StreetIdle

NextHistory ==
    \/ HT_QueryWikimedia /\ UNCHANGED <<mainVars, actVars, digVars, streetVars>>
    \/ HT_QueryBaidu /\ UNCHANGED <<mainVars, actVars, digVars, streetVars>>
    \/ HT_Select /\ UNCHANGED <<mainVars, actVars, digVars, streetVars>>

SpecHistory == InitHistory /\ [][NextHistory]_vars

InitActivity ==
    /\ now \in ActInstants
    /\ comments = <<>>
    /\ issueOpen = TRUE
    /\ runs = 0
    /\ tele_conf = FALSE
    /\ ding_conf = FALSE
    /\ RunIdle
    /\ HistIdle
    /\ apc = "pr"
    /\ page = 0
    /\ requested = <<>>
    /\ pages = <<>>
    /\ searchLines = <<>>
    /\ all_activities = <<>>
    /\ aresult = NoActivity
    /\ DigestIdle
    /\ StreetIdle

NextActivity ==
    \/ A_SearchPR /\ UNCHANGED <<mainVars, histVars, digVars, streetVars>>
    \/ A_SearchIssue /\ UNCHANGED <<mainVars, histVars, digVars, streetVars>>
    \/ A_FetchPage /\ UNCHANGED <<mainVars, histVars, digVars, streetVars>>
    \/ A_Merge /\ UNCHANGED <<mainVars, histVars, digVars, streetVars>>

SpecActivity == InitActivity /\ [][NextActivity]_vars

InitDigest ==
    /\ now \in Instants
    /\ comments = <<>>
    /\ issueOpen = TRUE
    /\ runs = 0
    /\ tele_conf = FALSE
    /\ ding_conf = FALSE
    /\ RunIdle
    /\ HistIdle
    /\ ActIdle
    /\ dpc = "sentence"
    /\ digest = [sentence |-> Unset, is_get_up_early |-> FALSE, day_of_year |-> 0,
                 year_progress |-> Unset, github_activity |-> Unset,
                 running_info |-> Unset, history_today |-> Unset,
                 street_view |-> Unset, answers |-> [src \in {} |-> "ok"]]
    /\ StreetIdle

NextDigest ==
    \/ D_Sentence /\ UNCHANGED <<mainVars, histVars, actVars, streetVars>>
    \/ D_Now /\ UNCHANGED <<mainVars, histVars, actVars, streetVars>>
    \/ D_SentenceAgain /\ UNCHANGED <<mainVars, histVars, actVars, streetVars>>
    \/ D_Calendar /\ UNCHANGED <<mainVars, histVars, actVars, streetVars>>
    \/ D_GithubActivity /\ UNCHANGED <<mainVars, histVars, actVars, streetVars>>
    \/ D_RunningInfo /\ UNCHANGED <<mainVars, histVars, actVars, streetVars>>
    \/ D_HistoryToday /\ UNCHANGED <<mainVars, histVars, actVars, streetVars>>
    \/ D_StreetView /\ UNCHANGED <<mainVars, histVars, actVars, streetVars>>
    \/ D_Return /\ UNCHANGED <<mainVars, histVars, actVars, streetVars>>

SpecDigest == InitDigest /\ [][NextDigest]_vars

\* The instants of the calendar calls: 08:00 in Shanghai on every day of 1900
\* (divisible by 100, not by 400), 2000 (divisible by 400), 2024, 2025 and 2100,
\* and on the day after each year that has 365 days.  The numbers are the
\* years' first days, counted from 1970-01-01.
ProgressInstants ==
    {(first + k) * 24 : first \in {-25567, 10957, 19723, 20089, 47482}, k \in 0..365}

\* make_get_up_message about to read the calendar (line 726), the poem being
\* the default one.
InitProgress ==
    /\ now \in ProgressInstants
    /\ comments = <<>>
    /\ issueOpen = TRUE
    /\ runs = 0
    /\ tele_conf = FALSE
    /\ ding_conf = FALSE
    /\ RunIdle
    /\ HistIdle
    /\ ActIdle
    /\ dpc = "calendar"
    /\ digest = [sentence |-> DEFAULT_SENTENCE,
                 is_get_up_early |-> (3 <= in_timezone(now).hour
                                        /\ in_timezone(now).hour <= 9),
                 day_of_year |-> 0,
                 year_progress |-> Unset, github_activity |-> Unset,
                 running_info |-> Unset, history_today |-> Unset,
                 street_view |-> Unset, answers |-> [src \in {"sentence"} |-> "bad_status"]]
    /\ StreetIdle

NextProgress ==
    \/ D_Calendar /\ UNCHANGED <<mainVars, histVars, actVars, streetVars>>

SpecProgress == InitProgress /\ [][NextProgress]_vars

InitStreet ==
    /\ now \in StreetInstants
    /\ comments = <<>>
    /\ issueOpen = TRUE
    /\ runs = 0
    /\ tele_conf = FALSE
    /\ ding_conf = FALSE
    /\ RunIdle
    /\ HistIdle
    /\ ActIdle
    /\ DigestIdle
    /\ rng \in RngStates
    /\ views = {}

NextStreet ==
    \/ S_StreetView /\ UNCHANGED <<mainVars, histVars, actVars, digVars>>
    \/ S_OtherRandom /\ UNCHANGED <<mainVars, histVars, actVars, digVars>>
    \/ (\E t \in StreetInstants : t > now) /\ Tick
          /\ UNCHANGED <<histVars, actVars, digVars, streetVars>>

SpecStreet == InitStreet /\ [][NextStreet]_vars

(***************************************************************************)
(* The idempotency gate and main(): properties, checked under Spec.        *)
(***************************************************************************)
\* C1: when the comment list is empty, the value the gate returns is treated as
\* false by main's check (so main does not take the "already recorded" return).
C1_EmptyListIsNotRunToday ==
    (pc = "gated" /\ comments = <<>>) => ~Truthy(is_today)

\* C2: with a non-empty comment list the gate returns the boolean that is true
\* exactly when the last comment's day of month and month, in Asia/Shanghai, are
\* those of the current instant; no year and no other comment takes part.
C2_GateComparesDayAndMonthOfLast ==
    (pc = "gated" /\ comments # <<>>) =>
        /\ is_today.t = "bool"
        /\ is_today.b <=>
              /\ in_timezone(comments[Len(comments)]).day = in_timezone(gateNow).day
              /\ in_timezone(comments[Len(comments)]).month = in_timezone(gateNow).month

\* The gate answered "already run" on a comment of another year, while an earlier
\* comment exists.
C2_Witness ==
    /\ pc = "gated"
    /\ Len(comments) >= 2
    /\ is_today = PyBool(TRUE)
    /\ in_timezone(comments[Len(comments)]).year # in_timezone(gateNow).year

\* C3: in a run whose gate reported "already run", no source fetcher is called,
\* no notification is attempted or sent, no comment is created, and the run is
\* at the gate's check or over.
C3_AlreadyRunEndsTheRun ==
    Truthy(is_today) =>
        /\ pc \in {"gated", "done"}
        /\ fetched = {}
        /\ attempted = {}
        /\ sent = {}
        /\ ~commented

\* A run ended by a gate that found today's comment.
C3_Witness ==
    /\ pc = "done"
    /\ is_today = PyBool(TRUE)
    /\ comments # <<>>

\* C4: in a run in which retrieving the comments failed, the error left main
\* (the run raised; the gate returned no value), nothing was fetched, no
\* notification was attempted or sent and no comment was created.
C4_CommentReadFailureAbortsTheRun ==
    ("get_comments" \in failed) =>
        /\ pc = "raised"
        /\ is_today = PyNone
        /\ fetched = {}
        /\ attempted = {}
        /\ sent = {}
        /\ ~commented

\* A run that raised because the comments could not be read, on an issue whose
\* comments would have let the run go on.
C4_Witness ==
    /\ pc = "raised"
    /\ "get_comments" \in failed
    /\ comments # <<>>
    /\ ~Truthy(get_today_get_up_status(comments, now))

C23_AtMostOncePerDay ==
    \A e1 \in journal, e2 \in journal :
        (/\ e1.run # e2.run
         /\ e1.gate = e1.day /\ e2.gate = e2.day /\ e1.day = e2.day) =>
            /\ ~(e1.what = "comment" /\ e2.what = "comment")
            /\ ~(e1.what \in Channels /\ e2.what \in Channels)

\* C24: every step of a run that attempts a notification or creates the
\* tracking comment is taken after the gate reported "not run today" and
\* after digest assembly found the local hour in the fixed timezone between 3
\* and 9 inclusive; the step that ends a run assembled outside those hours
\* attempts nothing, sends nothing and leaves the comments as they were, so
\* the gate of a later run reads what it would have read without that run;
\* and the comment is created only once every configured channel has been
\* attempted.
C24_OnlyEarlyRunsSendAndRecord ==
    [][ LET hour       == in_timezone(now).hour
            configured == {c \in Channels : (c = "telegram" /\ tele_conf)
                                             \/ (c = "dingtalk" /\ ding_conf)}
            recording  == commented' /\ ~commented
            notifying  == attempted' # attempted /\ attempted' # {}
        IN  /\ (pc = "gather" /\ pc' = "dispatch") =>
                  (is_get_up_early' <=> (3 <= hour /\ hour <= 9))
            /\ (pc \in {"dispatch", "dingtalk", "comment"} /\ pc' # pc) =>
                  (is_get_up_early' <=> is_get_up_early)
            /\ (notifying \/ sent' # sent \/ recording) =>
                  /\ is_today = PyBool(FALSE)
                  /\ is_get_up_early
                  /\ fetched = Sources
            /\ (comments' # comments) =>
                  \/ pc = "locate" /\ comments' = <<>>
                  \/ recording /\ comments' = Append(comments, now)
            /\ recording =>
                  /\ pc = "comment"
                  /\ attempted = configured
            /\ (pc = "dispatch" /\ ~is_get_up_early /\ pc' # pc) =>
                  /\ pc' = "done"
                  /\ attempted' = {} /\ sent' = {} /\ ~commented'
                  /\ comments' = comments
                  /\ journal' \ journal = {Delivery("late")}
      ]_vars

\* A run at 01:00 declined as late, and a run at 04:00 of the same day created
\* the tracking comment after attempting both configured channels.
C24_Witness ==
    /\ pc = "done"
    /\ commented
    /\ attempted = Channels
    /\ \E l \in journal, c \in journal :
          /\ l.what = "late" /\ c.what = "comment"
          /\ l.run < c.run /\ c.run = runs
          /\ l.day = c.day /\ l.gate = l.day /\ c.gate = c.day

(***************************************************************************)
(* get_history_today: properties, checked under SpecHistory.               *)
(***************************************************************************)
\* C5: when events are rendered, their number is min(limit, number of filtered
\* events), so at most limit; no event is rendered twice; and the years do not
\* increase along the block.
C5_SampleSizeDistinctSorted ==
    hresult.kind = "block" =>
        LET L == hresult.lines
        IN  /\ Len(L) = Min(limit, Len(filtered_events))
            /\ Len(L) <= limit
            /\ \A i, j \in 1..Len(L) :
                 i # j => <<L[i].src, L[i].idx>> # <<L[j].src, L[j].idx>>
            /\ \A i \in 1..(Len(L) - 1) : L[i].year >= L[i + 1].year

\* A block cut to the limit: more events passed the filter than were asked for.
C5_Witness ==
    /\ hresult.kind = "block"
    /\ limit >= 1
    /\ Len(filtered_events) > limit
    /\ Len(hresult.lines) = limit

\* C6: the rendered events come from one provider; when the provider queried
\* first (Wikimedia) yields an event the other is not queried and every rendered
\* event is a Wikimedia event; when it yields none and Baidu yields some, every
\* rendered event is a Baidu event.
C6_EventsFromOneProvider ==
    /\ wikiEvents # <<>> => ~InSeq("baidu", queried)
    /\ hresult.kind = "block" =>
        LET L == hresult.lines
        IN  /\ \A i, j \in 1..Len(L) : L[i].src = L[j].src
            /\ wikiEvents # <<>> => \A i \in 1..Len(L) : L[i].src = "wikimedia"
            /\ (wikiEvents = <<>> /\ baiduEvents # <<>>) =>
                   \A i \in 1..Len(L) : L[i].src = "baidu"

\* Wikimedia answered with entries, none usable, and the block shows Baidu's.
C6_Witness ==
    /\ hresult.kind = "block"
    /\ wikiRaw.kind = "ok"
    /\ wikiRaw.events # <<>>
    /\ wikiEvents = <<>>
    /\ Len(hresult.lines) >= 2
    /\ \A i \in 1..Len(hresult.lines) : hresult.lines[i].src = "baidu"

\* C7: every event either adapter emits has an integer year and a non-empty
\* text, and an entry whose year carries the BCE marker yields a year below 0.
C7_EmittedEventsAreWellFormed ==
    /\ \A i \in 1..Len(wikiEvents) :
         /\ wikiEvents[i].year.t = "int"
         /\ wikiEvents[i].text.t = "str"
         /\ wikiEvents[i].text.s # <<>>
    /\ \A i \in 1..Len(baiduEvents) :
         /\ baiduEvents[i].year.t = "int"
         /\ baiduEvents[i].text.t = "str"
         /\ baiduEvents[i].text.s # <<>>
         /\ HasMarker(baiduRaw.events[baiduEvents[i].idx].year) =>
                baiduEvents[i].year.v < 0

\* C8: every rendered event carries exactly one annotation: the age,
\* year - birth_year, when year >= birth_year, and the years before birth,
\* birth_year - year, otherwise.
C8_AgeAnnotation ==
    hresult.kind = "block" =>
        \A i \in 1..Len(hresult.lines) :
            LET l == hresult.lines[i]
            IN  IF l.year >= birth_year
                THEN l.ann = "age" /\ l.n = l.year - birth_year
                ELSE l.ann = "before" /\ l.n = birth_year - l.year

\* C9: get_history_today returns a rendered block or one of the filler
\* statements of FALLBACK_INTERESTING_FACTS; it never raises.
C9_NeverRaises ==
    hpc = "returned" =>
        \/ hresult.kind = "block"
        \/ hresult.kind = "filler" /\ hresult.fact \in FALLBACK_INTERESTING_FACTS

\* A filler statement returned after the filter raised on a year that is no int.
C9_Witness ==
    /\ hpc = "returned"
    /\ hresult.kind = "filler"
    /\ EventsAfterFallback # <<>>
    /\ FilterRaises(EventsAfterFallback)

\* C18: when the provider queried first (Wikimedia) failed, answered with no
\* entry or answered with a malformed payload (an entry whose year is not an
\* integer), a filler statement is returned only after the second provider
\* (Baidu) was queried.
C18_SecondaryQueriedBeforeFiller ==
    ( /\ hresult.kind = "filler"
      /\ \/ wikiRaw.kind # "ok"
         \/ wikiRaw.events = <<>>
         \/ \E i \in 1..Len(wikiRaw.events) : wikiRaw.events[i].year.t # "int" )
    => InSeq("baidu", queried)

\* C19: the list the sample is drawn from holds the events whose year lies in
\* birth_year..current_year when there is one; else the events whose year is
\* above 0 when there is one; else nothing is rendered and a filler statement
\* of the pool is returned.  Only lines of that list are rendered.
C19_CandidateSet ==
    hpc = "returned" =>
        LET events   == EventsAfterFallback
            lifetime == {i \in 1..Len(events) :
                            /\ events[i].year.t = "int"
                            /\ birth_year <= events[i].year.v
                            /\ events[i].year.v <= current_year}
            positive == {i \in 1..Len(events) :
                            events[i].year.t = "int" /\ events[i].year.v > 0}
            drawn    == {filtered_events[i].idx : i \in 1..Len(filtered_events)}
            Idx(S)   == {events[i].idx : i \in S}
        IN  /\ lifetime # {} => drawn = Idx(lifetime)
            /\ (lifetime = {} /\ positive # {}) => drawn = Idx(positive)
            /\ (lifetime = {} /\ positive = {}) =>
                    /\ drawn = {}
                    /\ hresult.kind = "filler"
                    /\ hresult.fact \in FALLBACK_INTERESTING_FACTS
            /\ Len(filtered_events) = Cardinality(drawn)
            /\ \A n \in 1..Len(hresult.lines) : hresult.lines[n].idx \in drawn

(***************************************************************************)
(* get_yesterday_github_activity: properties, checked under SpecActivity.  *)
(***************************************************************************)
\* C10: the activity block never holds two entries with the same rendered text.
C10_NoDuplicateEntries ==
    aresult.kind = "block" =>
        \A i, j \in 1..Len(aresult.lines) :
            i # j => aresult.lines[i] # aresult.lines[j]

\* A block made from collected lines among which one occurs twice, once from
\* each of two event pages.
C10_Witness ==
    /\ aresult.kind = "block"
    /\ Len(requested) >= 2
    /\ \E i, j \in 1..Len(all_activities) :
         i # j /\ all_activities[i] = all_activities[j]

\* C11: the entries of the block are the first 15 of the merged list, which is the
\* pull-request search's lines, then the issue search's, then the event pages'
\* in the order fetched, each line kept at its first occurrence only; a first
\* page of 30 distinct qualifying events, with no search line, gives the lines
\* of its first 15 events in stream order.
C11_BlockIsFirstFifteenOfMergedLines ==
    aresult.kind = "block" =>
        LET merged == searchLines \o all_activities
            L == aresult.lines
            \* where each line of the block stands first in the merged list
            at == [n \in 1..Len(L) |->
                     IF \E i \in 1..Len(merged) : merged[i] = L[n]
                     THEN CHOOSE i \in 1..Len(merged) :
                              merged[i] = L[n] /\ \A j \in 1..(i - 1) : merged[j] # L[n]
                     ELSE 0]
            RECURSIVE Cat(_)
            Cat(k) == IF k = 0 THEN <<>> ELSE Cat(k - 1) \o pages[k].lines
        IN  /\ Len(L) <= 15
            /\ \A n \in 1..Len(L) : at[n] > 0
            /\ \A n \in 1..(Len(L) - 1) : at[n] < at[n + 1]
            /\ \A i \in 1..Len(merged) :
                    (Len(L) < 15 \/ i < at[Len(L)]) => \E n \in 1..Len(L) : L[n] = merged[i]
            /\ \A i, j \in 1..Len(searchLines) :
                    /\ searchLines[i].action \in {"created PR", "created Issue"}
                    /\ i < j => ~(searchLines[i].action = "created Issue"
                                  /\ searchLines[j].action = "created PR")
            /\ all_activities = Cat(Len(pages))
            /\ ( /\ searchLines = <<>>
                 /\ pages[1].kind = "ok"
                 /\ Len(pages[1].events) = 30
                 /\ \A i \in 1..30 :
                       LET e == pages[1].events[i]
                       IN  /\ e.public /\ e.type = "PullRequestEvent" /\ e.action = "merged"
                           /\ yesterday_start(now) <= e.created_at
                           /\ e.created_at <= yesterday_end(now)
                           /\ \A j \in 1..30 : i # j => pages[1].events[j].title # e.title )
                => L = [i \in 1..15 |->
                          [action |-> "merged PR", title |-> pages[1].events[i].title,
                           repo |-> pages[1].events[i].repo]]

\* A block made from a first page of 30 distinct merged pull requests of
\* yesterday and a second page, with no search line.
C11_Witness ==
    /\ aresult.kind = "block"
    /\ searchLines = <<>>
    /\ Len(pages) >= 2
    /\ pages[1].events = FullPage(101, T_IN)
    /\ Len(all_activities) > 30
    /\ Len(aresult.lines) = 15

\* C12: the event pages are requested in the order 1, 2, 3 and never more than
\* three of them; after a fetched page that is empty or holds fewer than 30
\* events no further page is requested.
C12_PagesInOrderUntilShortPage ==
    /\ Len(requested) <= 3
    /\ Len(pages) = Len(requested)
    /\ \A k \in 1..Len(requested) : requested[k] = k
    /\ \A k \in 1..Len(pages) :
          (pages[k].kind = "ok" /\ Len(pages[k].events) < 30) => k = Len(pages)

\* A returned call that requested page 2 after a full page 1, got a page of
\* one or two events, and requested nothing more.
C12_Witness ==
    /\ apc = "returned"
    /\ requested = <<1, 2>>
    /\ pages[1].kind = "ok" /\ Len(pages[1].events) = 30
    /\ pages[2].kind = "ok" /\ Len(pages[2].events) \in 1..29
    /\ aresult.kind = "block"

\* C13: within one page the scan stops at the first event created strictly
\* before the start of the window: the page gives what its events before that
\* one give, whatever follows it in the page.
C13_ScanStopsAtFirstOldEvent ==
    \A k \in 1..Len(pages) :
        LET events == pages[k].events
            old == {i \in 1..Len(events) : events[i].created_at < yesterday_start(now)}
        IN  (pages[k].kind = "ok" /\ old # {}) =>
                LET first == CHOOSE i \in old : \A j \in old : i <= j
                    before == _process_events(SubSeq(events, 1, first - 1),
                                              yesterday_start(now), yesterday_end(now))
                IN  /\ pages[k].lines = before.lines
                    /\ pages[k].raised = before.raised

\* A block made from a page in which a merged pull request of yesterday follows
\* an older event: the block has no line for it.
C13_Witness ==
    /\ aresult.kind = "block"
    /\ \E k \in 1..Len(pages) : \E i, j \in 1..Len(pages[k].events) :
          LET e == pages[k].events[j]
          IN  /\ i < j
              /\ pages[k].events[i].created_at < yesterday_start(now)
              /\ e.type = "PullRequestEvent" /\ e.action = "merged" /\ e.public
              /\ yesterday_start(now) <= e.created_at
              /\ e.created_at <= yesterday_end(now)
              /\ \A n \in 1..Len(aresult.lines) : aresult.lines[n].title # e.title

\* C16: once a fetched page held an event older than the start of the window,
\* no further page is requested, and so no event of a later page gives a line.
C16_OldEventStopsConsumption ==
    \A k \in 1..Len(pages) :
        ( /\ pages[k].kind = "ok"
          /\ \E i \in 1..Len(pages[k].events) :
                pages[k].events[i].created_at < yesterday_start(now) )
        => k = Len(pages)

\* C17: the searches and the event stream are collected independently, a
\* payload of unexpected shape counting as no answer: whatever a search
\* answered, the event stream is asked, and whatever the event stream answered,
\* the returned block holds the lines collected (the first 15 of them).
C17_SubCollectionsIndependent ==
    apc = "returned" =>
        /\ requested # <<>>
        /\ LET merged == searchLines \o all_activities
           IN  merged # <<>> =>
                 /\ aresult.kind = "block"
                 /\ \A i \in 1..Len(merged) :
                       i <= 15 => InSeq(merged[i], aresult.lines)

\* C20: of the events of a page that are scanned (those before the first event
\* older than the window), exactly the public ones created within
\* [yesterday_start, yesterday_end] that are a merged PullRequestEvent, a closed
\* IssuesEvent or a started WatchEvent give a line, one each, in the order of
\* the stream; no other event gives a line.
C20_OneLinePerQualifyingEvent ==
    \A k \in 1..Len(pages) :
        (pages[k].kind = "ok" /\ ~pages[k].raised) =>
            LET events  == pages[k].events
                lines   == pages[k].lines
                start   == yesterday_start(now)
                end     == yesterday_end(now)
                old     == {i \in 1..Len(events) : events[i].created_at < start}
                scanned == {i \in 1..Len(events) : \A o \in old : i < o}
                kinds   == {<<"PullRequestEvent", "merged">>, <<"IssuesEvent", "closed">>,
                            <<"WatchEvent", "started">>}
                entry   == {i \in scanned :
                               /\ events[i].public
                               /\ start <= events[i].created_at
                               /\ events[i].created_at <= end
                               /\ <<events[i].type, events[i].action>> \in kinds}
            IN  /\ Len(lines) = Cardinality(entry)
                /\ \A i \in entry :
                      LET e    == events[i]
                          line == lines[Cardinality({j \in entry : j < i}) + 1]
                      IN  /\ line.repo = e.repo
                          /\ e.type = "PullRequestEvent" =>
                                line.action = "merged PR" /\ line.title = e.title
                          /\ e.type = "IssuesEvent" =>
                                line.action = "closed Issue" /\ line.title = e.title
                          /\ e.type = "WatchEvent" => line.action = "starred"

\* A block of one line: the first page held 30 merged pull requests created
\* after the window, which gave no line, and the second an issue closed
\* yesterday.
C20_Witness ==
    /\ aresult.kind = "block"
    /\ searchLines = <<>>
    /\ Len(pages) = 2
    /\ Len(pages[1].events) = 30
    /\ \A i \in 1..30 : /\ pages[1].events[i].created_at > yesterday_end(now)
                        /\ pages[1].events[i].action = "merged"
    /\ pages[1].lines = <<>>
    /\ Len(pages[2].events) = 1
    /\ pages[2].events[1].type = "IssuesEvent"
    /\ pages[2].events[1].action = "closed"
    /\ Len(aresult.lines) = 1
    /\ aresult.lines[1].action = "closed Issue"

(***************************************************************************)
(* make_get_up_message: properties, checked under SpecDigest.              *)
(***************************************************************************)
\* C14: make_get_up_message never raises, whatever each source answers, and what
\* it returns has every field of the digest; the section of a source that
\* failed is the default poem, an empty string or a filler statement.
C14_DigestAlwaysReturned ==
    /\ dpc # "raised"
    /\ dpc = "returned" =>
          /\ digest.sentence \in {Text("poem"), DEFAULT_SENTENCE}
          /\ digest.is_get_up_early \in BOOLEAN
          /\ digest.day_of_year \in 1..366
          /\ digest.year_progress.kind = "progress"
          /\ digest.github_activity \in {Text("github"), Text("")}
          /\ digest.running_info \in {Text("run"), Text("")}
          /\ digest.history_today.kind \in {"block", "filler"}
          /\ digest.history_today.kind = "filler" =>
                digest.history_today.fact \in FALLBACK_INTERESTING_FACTS
          /\ digest.street_view \in {Text("street_view"), Text("")}
          /\ DOMAIN digest.answers = {"sentence", "github_activity", "running_info",
                                      "history_today", "street_view"}
          /\ digest.answers["sentence"] # "ok" => digest.sentence = DEFAULT_SENTENCE
          /\ digest.answers["github_activity"] # "ok" => digest.github_activity = Text("")
          /\ digest.answers["running_info"] # "ok" => digest.running_info = Text("")
          /\ digest.answers["history_today"] # "ok" => digest.history_today.kind = "filler"
          /\ digest.answers["street_view"] # "ok" => digest.street_view = Text("")

\* The digest returned when the five sources failed in five different ways.
C14_Witness ==
    /\ dpc = "returned"
    /\ digest.answers["sentence"] = "network_error"
    /\ digest.answers["github_activity"] = "malformed"
    /\ digest.answers["running_info"] = "bad_status"
    /\ digest.answers["history_today"] = "malformed"
    /\ digest.answers["street_view"] = "malformed"
    /\ digest.sentence = DEFAULT_SENTENCE
    /\ digest.history_today.kind = "filler"

(***************************************************************************)
(* get_random_street_view: properties, checked under SpecStreet.           *)
(***************************************************************************)
\* C15: two calls of get_random_street_view on the same calendar day (same year
\* and day of the year in Asia/Shanghai) give the same site, whatever the hour
\* and whatever was drawn from the generator before each; and the seeds
\* year * 1000 + day_of_year of two distinct calendar days differ (of the days
\* of two calls, and of today and every other day within three years of it).
C15_SameDaySameSite ==
    /\ \A v, w \in views :
          (v.year = w.year /\ v.day_of_year = w.day_of_year) => v.site = w.site
    /\ \A v, w \in views :
          (v.year # w.year \/ v.day_of_year # w.day_of_year) => v.day_seed # w.day_seed
    /\ \A v \in views : v.site \in 0..39
    /\ LET year == in_timezone(now).year
           day  == day_of_year(now)
           seed == day_seed(year, day)
       IN  \A y \in (year - 3)..(year + 3) :
               \A d \in 1..(IF IsLeapYear(y) THEN 366 ELSE 365) :
                   (y # year \/ d # day) => day_seed(y, d) # seed

\* Two calls on the same calendar day, at different hours and with the
\* generator in different states before them.
C15_Witness ==
    \E v, w \in views :
        /\ v.year = w.year /\ v.day_of_year = w.day_of_year
        /\ v.hour # w.hour
        /\ v.before # w.before
        /\ v.site = w.site

(***************************************************************************)
(* get_year_progress: properties, checked under SpecProgress.              *)
(***************************************************************************)
\* C21: on every day d of a year, get_year_progress counts 366 days exactly
\* when the year is divisible by 4 and not by 100, or divisible by 400, and
\* 365 otherwise; d lies in 1..total; the bar has 20 slots, of which
\* floor(20 * d / total) are filled and the rest empty, so between 0 and 20
\* are filled, and all 20 only on the last day of the year.
C21_YearProgressBar ==
    digest.year_progress # Unset =>
        LET p     == digest.year_progress
            today == FloorDiv(now + TZ_OFFSET_HOURS, 24)
            year  == CivilFromDays(today).year
            \* the days of this year up to today, counted on the calendar
            d     == Cardinality({x \in (today - 366)..today : CivilFromDays(x).year = year})
            total == IF (year % 4 = 0 /\ year % 100 # 0) \/ year % 400 = 0
                     THEN 366 ELSE 365
        IN  /\ p.total_days = total
            /\ p.day_of_year = d
            /\ digest.day_of_year = d
            /\ d \in 1..total
            /\ CivilFromDays(today - d + total).year = year
            /\ CivilFromDays(today - d + total + 1).year = year + 1
            /\ p.filled_blocks \in 0..20
            /\ p.filled_blocks + p.empty_blocks = 20
            /\ p.filled_blocks * total <= 20 * d
            /\ 20 * d < (p.filled_blocks + 1) * total
            /\ p.filled_blocks = 20 <=> d = total

\* The bar of the last day of 1900, a year divisible by 100 and not by 400:
\* day 365 of 365, all 20 slots filled.
C21_Witness ==
    /\ digest.year_progress # Unset
    /\ in_timezone(now).year = 1900
    /\ digest.year_progress.day_of_year = 365
    /\ digest.year_progress.total_days = 365
    /\ digest.year_progress.filled_blocks = 20

====
